---- MODULE Spec2Model ----
(***************************************************************************)
(* A model of src/selinux.c: mode_to_security_class, computecon,           *)
(* defaultcon, restorecon_private and restorecon.                          *)
(*                                                                         *)
(* A security_context_t (a string "user:role:type:range") is modelled as   *)
(* the tuple of its colon-separated fields; NULL is the empty tuple.  A    *)
(* context_t (libselinux's parsed form, component[0..3]) is a 4-tuple      *)
(* whose last component is "" when the string carried no range.  A path    *)
(* is the tuple of its names, "/" first.  C int and bool values are kept   *)
(* as integers so that the conversions the code performs are visible.      *)
(***************************************************************************)
EXTENDS Integers, Sequences, FiniteSets, TLC

\* Bound of the exploration: the number of calls that fail within one run.
MaxFaults == 1

NULL == <<>>

------------------------------------------------------------------------------
\* File types of <sys/stat.h>, as tested by the S_IS* macros of lines 46-58.
S_IFIFO == 4096
S_IFCHR == 8192
S_IFDIR == 16384
S_IFBLK == 24576
S_IFREG == 32768
S_IFLNK == 40960
S_IFSOCK == 49152

\* m & S_IFMT: S_IFMT (0170000) is bits 12..15 of the mode.
FileType(m) == ((m \div 4096) % 16) * 4096

S_ISREG(m) == FileType(m) = S_IFREG
S_ISDIR(m) == FileType(m) = S_IFDIR
S_ISCHR(m) == FileType(m) = S_IFCHR
S_ISBLK(m) == FileType(m) = S_IFBLK
S_ISFIFO(m) == FileType(m) = S_IFIFO
S_ISLNK(m) == FileType(m) = S_IFLNK
S_ISSOCK(m) == FileType(m) = S_IFSOCK

\* string_to_security_class: the class value the loaded policy gives a class
\* name (the values of <selinux/flask.h>), 0 for a name it does not know.
string_to_security_class(s) ==
  CASE s = "file" -> 6
    [] s = "dir" -> 7
    [] s = "lnk_file" -> 9
    [] s = "chr_file" -> 10
    [] s = "blk_file" -> 11
    [] s = "sock_file" -> 12
    [] s = "fifo_file" -> 13
    [] OTHER -> 0

\* A mode_to_security_class that gives a character device the class of a
\* block device.
mode_to_security_class_ChrAsBlk(m) ==
  IF S_ISREG(m) THEN [class |-> string_to_security_class("file"), einval |-> FALSE]
  ELSE IF S_ISDIR(m) THEN [class |-> string_to_security_class("dir"), einval |-> FALSE]
  ELSE IF S_ISCHR(m) THEN [class |-> string_to_security_class("blk_file"), einval |-> FALSE]
  ELSE IF S_ISBLK(m) THEN [class |-> string_to_security_class("blk_file"), einval |-> FALSE]
  ELSE IF S_ISFIFO(m) THEN [class |-> string_to_security_class("fifo_file"), einval |-> FALSE]
  ELSE IF S_ISLNK(m) THEN [class |-> string_to_security_class("lnk_file"), einval |-> FALSE]
  ELSE IF S_ISSOCK(m) THEN [class |-> string_to_security_class("sock_file"), einval |-> FALSE]
  ELSE [class |-> 0, einval |-> TRUE]

\* mode_to_security_class (lines 44-63): [class, errno set to EINVAL or not].
mode_to_security_class(m) ==
  IF S_ISREG(m) THEN [class |-> string_to_security_class("file"), einval |-> FALSE]
  ELSE IF S_ISDIR(m) THEN [class |-> string_to_security_class("dir"), einval |-> FALSE]
  ELSE IF S_ISCHR(m) THEN [class |-> string_to_security_class("chr_file"), einval |-> FALSE]
  ELSE IF S_ISBLK(m) THEN [class |-> string_to_security_class("blk_file"), einval |-> FALSE]
  ELSE IF S_ISFIFO(m) THEN [class |-> string_to_security_class("fifo_file"), einval |-> FALSE]
  ELSE IF S_ISLNK(m) THEN [class |-> string_to_security_class("lnk_file"), einval |-> FALSE]
  ELSE IF S_ISSOCK(m) THEN [class |-> string_to_security_class("sock_file"), einval |-> FALSE]
  ELSE [class |-> 0, einval |-> TRUE]

------------------------------------------------------------------------------
\* libselinux context.h: parsing, formatting and the type accessors.

\* context_new: a string of fewer than three fields does not parse (NULL);
\* the range is optional.
context_new(str) ==
  IF Len(str) < 3 THEN NULL
  ELSE <<str[1], str[2], str[3], IF Len(str) >= 4 THEN str[4] ELSE "">>

\* context_str: the string of a parsed context; an absent range is left out.
context_str(c) ==
  IF c[4] = "" THEN <<c[1], c[2], c[3]>> ELSE c

context_type_get(c) == c[3]

context_type_set(c, t) == [c EXCEPT ![3] = t]

\* A merge the other way round: the type of tcontext put into scontext.
SubstituteType_Swapped(tcontext, scontext) ==
  context_type_set(scontext, context_type_get(tcontext))

\* The merge both callers perform (lines 126 and 202):
\* context_type_set(tcontext, context_type_get(scontext)).
SubstituteType(tcontext, scontext) ==
  context_type_set(tcontext, context_type_get(scontext))

RECURSIVE SumLen(_, _)
SumLen(str, i) == IF i > Len(str) THEN 0 ELSE Len(str[i]) + SumLen(str, i + 1)

\* strlen(context) + 1, what fgetfilecon and lgetfilecon return on success:
\* the fields, the colons between them and the terminating NUL.
ConSize(str) == SumLen(str, 1) + (Len(str) - 1) + 1

------------------------------------------------------------------------------
\* The file system the calls act on: "/" holds the directory d, which holds
\* the regular file a and the symbolic link l.
Root == <<"/">>
Objects == { <<"/", "d">>, <<"/", "d", "a">>, <<"/", "d", "l">> }
Paths == Objects \cup {Root}

\* st_mode of each object, as fstat and lstat report it.
FileMode(path) ==
  IF path = <<"/", "d", "a">> THEN S_IFREG + 420
  ELSE IF path = <<"/", "d", "l">> THEN S_IFLNK + 511
  ELSE S_IFDIR + 493

\* The entries of a directory, in the order the walk reads them.
Children(path) ==
  IF path = Root THEN << <<"/", "d">> >>
  ELSE IF path = <<"/", "d">> THEN << <<"/", "d", "a">>, <<"/", "d", "l">> >>
  ELSE <<>>

\* The object a path names when the last name is followed: l points to a.
Resolve(path) == IF path = <<"/", "d", "l">> THEN <<"/", "d", "a">> ELSE path

\* dirname(3): the path without its last name; "/" is its own parent.
dirname(path) == IF path = Root THEN Root ELSE SubSeq(path, 1, Len(path) - 1)

\* The modes defaultcon and computecon are called with: one of each file
\* type, and one with no file type bits.
Modes ==
  {S_IFREG + 420, S_IFDIR + 493, S_IFCHR + 420, S_IFBLK + 420, S_IFIFO + 420,
   S_IFLNK + 511, S_IFSOCK + 420, 420}

\* The labels on disk before any call.
InitFilecon ==
  [p \in Paths |->
     IF p = Root THEN <<"system_u", "object_r", "root_t", "s0">>
     ELSE IF p = <<"/", "d">> THEN <<"staff_u", "object_r", "user_home_t">>
     ELSE IF p = <<"/", "d", "a">> THEN <<"guest_u", "guest_r", "tmp_t", "s2">>
     ELSE <<"user_u", "object_r", "var_t", "s0-s1">>]

\* getcon: the label of the calling process.
ProcessCon == <<"staff_u", "staff_r", "staff_t", "s0-s3">>

\* matchpathcon: the label the path-pattern database (file_contexts) gives a
\* path and a mode.
matchpathcon(path, mode) ==
  IF S_ISDIR(mode) THEN <<"system_u", "object_r", "etc_t", "s0">>
  ELSE IF S_ISLNK(mode) THEN <<"system_u", "object_r", "bin_t", "s0">>
  ELSE IF Len(path) > 2 THEN <<"system_u", "object_r", "etc_runtime_t", "s0">>
  ELSE <<"system_u", "object_r", "default_t", "s0">>

\* security_compute_create: the label the policy gives an object of class
\* tclass that a process labelled scon creates in a directory labelled tcon:
\* the user and the range of the process, the role object_r, and the type of
\* the directory unless a type_transition rule names another.
security_compute_create(scon, tcon, tclass) ==
  <<scon[1], "object_r",
    IF tcon[3] = "root_t" /\ tclass = 7 THEN "home_root_t" ELSE tcon[3],
    IF Len(scon) >= 4 THEN scon[4] ELSE "s0">>

------------------------------------------------------------------------------
\* The outcomes of the fallible calls, chosen by the environment of a call.
\* fails: the calls that fail; fd: the descriptor a successful open returns
\* (0 when the caller's descriptor 0 was closed); errno0: the value errno
\* holds from before the call, which a successful call leaves alone; ub: what
\* the build does on the null pointer handed to libselinux.
Steps ==
  {"strdup", "getcon", "getfilecon", "security_compute_create", "matchpathcon",
   "context_new_s", "context_new_t", "setfscreatecon", "getfscreatecon",
   "open", "stat", "setfilecon"}

Envs(steps, fds, errnos, ubs) ==
  { e \in [fails : SUBSET steps, fd : fds, errno0 : errnos, ub : ubs] :
      Cardinality(e.fails) <= MaxFaults }

Failed(e, step) == step \in e.fails

------------------------------------------------------------------------------
\* computecon (lines 73-96).  fcon is the labels on disk.  The result holds
\* the return value, the label stored through con (NULL when none was), the
\* calls made in order, and what was handed to the policy engine.

\* A computecon that takes the label of path itself as the target.
ComputeconTarget_Self(path) == path

\* Line 84: the object whose label is the target of the transition.
ComputeconTarget(path) == dirname(path)

\* Lines 92-94: free (dir), freecon (scon), freecon (tcon).
ComputeconReleased == {"dir", "scon", "tcon"}

computecon(path, mode, e, fcon) ==
  LET dirOk == ~Failed(e, "strdup")
      sconOk == dirOk /\ ~Failed(e, "getcon")
      scon == IF sconOk THEN ProcessCon ELSE NULL
      tpath == ComputeconTarget(path)
      tconOk == sconOk /\ ~Failed(e, "getfilecon")
      tcon == IF tconOk THEN fcon[tpath] ELSE NULL
      cls == mode_to_security_class(mode)
      tclass == cls.class
      classOk == tconOk /\ tclass # 0
      computeOk == classOk /\ ~Failed(e, "security_compute_create")
      ops == <<"strdup">>
             \o (IF dirOk THEN <<"getcon">> ELSE <<>>)
             \o (IF sconOk THEN <<"getfilecon">> ELSE <<>>)
             \o (IF tconOk THEN <<"mode_to_security_class">> ELSE <<>>)
             \o (IF classOk THEN <<"security_compute_create">> ELSE <<>>)
             \o <<"free", "freecon", "freecon">>
  IN [rc |-> IF computeOk THEN 0 ELSE -1,
      con |-> IF computeOk THEN security_compute_create(scon, tcon, tclass) ELSE NULL,
      ops |-> ops,
      asked |-> classOk,
      scon |-> IF classOk THEN scon ELSE NULL,
      tcon |-> IF classOk THEN tcon ELSE NULL,
      tpath |-> IF sconOk THEN tpath ELSE NULL,
      tclass |-> IF tconOk THEN tclass ELSE 0,
      einval |-> tconOk /\ cls.einval,
      held |-> ((IF dirOk THEN {"dir"} ELSE {})
                \cup (IF sconOk THEN {"scon"} ELSE {})
                \cup (IF tconOk THEN {"tcon"} ELSE {}))
               \ ComputeconReleased]

\* The result of a computecon that was not called.
NoComputecon ==
  [rc |-> -1, con |-> NULL, ops |-> <<>>, asked |-> FALSE, scon |-> NULL,
   tcon |-> NULL, tpath |-> NULL, tclass |-> 0, einval |-> FALSE, held |-> {}]

------------------------------------------------------------------------------
\* defaultcon (lines 107-138).  fscreate is the process's creation label.

\* A defaultcon without line 119: rc keeps computecon's value.
DefaultconParseRc_Kept(rc) == rc

\* Line 119: rc, which holds computecon's 0, is set to -1 before the parses.
DefaultconParseRc(rc) == -1

\* The labels and parsed labels a call holds when it reaches quit.
Acquired(scon, tcon, scontext, tcontext) ==
  (IF scontext # NULL THEN {"scontext"} ELSE {})
  \cup (IF tcontext # NULL THEN {"tcontext"} ELSE {})
  \cup (IF scon # NULL THEN {"scon"} ELSE {})
  \cup (IF tcon # NULL THEN {"tcon"} ELSE {})

\* A quit that does not release tcon.
ReleasedAtQuit_NoTcon(scontext) ==
  (IF scontext # NULL THEN {"scontext", "tcontext"} ELSE {}) \cup {"scon"}

\* What lines 131-136 (and 212-217) release: both parsed labels under the
\* test of scontext alone, and both labels.
ReleasedAtQuit(scontext) ==
  (IF scontext # NULL THEN {"scontext", "tcontext"} ELSE {}) \cup {"scon", "tcon"}

defaultcon(path, mode, e, fcon, fscreate) ==
  LET matchOk == ~Failed(e, "matchpathcon")
      scon == IF matchOk THEN matchpathcon(path, mode) ELSE NULL
      comp == IF matchOk THEN computecon(path, mode, e, fcon) ELSE NoComputecon
      compOk == matchOk /\ ~(comp.rc < 0)
      tcon == comp.con
      scontext == IF compOk /\ ~Failed(e, "context_new_s") THEN context_new(scon) ELSE NULL
      sOk == compOk /\ scontext # NULL
      tcontext == IF sOk /\ ~Failed(e, "context_new_t") THEN context_new(tcon) ELSE NULL
      tOk == sOk /\ tcontext # NULL
      merged == IF tOk THEN SubstituteType(tcontext, scontext) ELSE NULL
      str == IF tOk THEN context_str(merged) ELSE NULL
      setOk == tOk /\ ~Failed(e, "setfscreatecon")
      rc == IF ~matchOk THEN -1
            ELSE IF ~compOk THEN comp.rc
            ELSE IF ~tOk THEN DefaultconParseRc(comp.rc)
            ELSE IF setOk THEN 0 ELSE -1
      acquired == Acquired(scon, tcon, scontext, tcontext)
      released == ReleasedAtQuit(scontext)
      ops == <<"matchpathcon">>
             \o (IF matchOk THEN <<"computecon">> ELSE <<>>)
             \o (IF compOk THEN <<"context_new_s">> ELSE <<>>)
             \o (IF sOk THEN <<"context_new_t">> ELSE <<>>)
             \o (IF tOk THEN <<"context_type_set", "context_str", "setfscreatecon">>
                 ELSE <<>>)
             \o (IF scontext # NULL THEN <<"context_free", "context_free">> ELSE <<>>)
             \o <<"freecon", "freecon">>
  IN [rc |-> rc,
      ops |-> ops,
      comp |-> comp,
      scon |-> scon,
      tcon |-> tcon,
      tried |-> str,
      fscreate |-> IF setOk THEN str ELSE fscreate,
      held |-> acquired \ released]

------------------------------------------------------------------------------
\* restorecon_private (lines 152-219).  The result holds the return value,
\* whether the process died inside the call, the calls made in order, the
\* value open returned, the values handed to close, the label a successful
\* set stored on the object (NULL when none was stored) and what is still
\* held at the return.

\* Lines 159-165, preserve: the creation label is set on the object as it is,
\* by setOp on the object target.  getfscreatecon succeeds with NULL when no
\* creation label is set, and the set then takes strlen of NULL.
PreserveResult(e, fscreate, setOp, target) ==
  IF Failed(e, "getfscreatecon")
  THEN [rc |-> -1, crashed |-> FALSE, ops |-> <<"getfscreatecon">>, fd |-> -1,
        closed |-> <<>>, applied |-> NULL, target |-> NULL, held |-> {}]
  ELSE IF fscreate = NULL /\ e.ub = "crash"
  THEN [rc |-> -1, crashed |-> TRUE, ops |-> <<"getfscreatecon", setOp>>,
        fd |-> -1, closed |-> <<>>, applied |-> NULL, target |-> NULL, held |-> {}]
  ELSE LET setOk == fscreate # NULL /\ ~Failed(e, "setfilecon")
       IN [rc |-> IF setOk THEN 0 ELSE -1, crashed |-> FALSE,
           ops |-> <<"getfscreatecon", setOp, "freecon">>, fd |-> -1,
           closed |-> <<>>, applied |-> IF setOk THEN fscreate ELSE NULL,
           target |-> IF setOk THEN target ELSE NULL,
           held |-> (IF fscreate # NULL THEN {"tcon"} ELSE {}) \ {"tcon"}]

\* A preserve branch that calls setfilecon, which follows a symbolic link.
RelabelPreserve_Follow(path, e, fscreate) ==
  PreserveResult(e, fscreate, "setfilecon", Resolve(path))

\* Line 162: lsetfilecon (path, tcon) labels the object path names, a symbolic
\* link included.
RelabelPreserve(path, e, fscreate) == PreserveResult(e, fscreate, "lsetfilecon", path)

\* Line 167: open (path, O_RDONLY | O_NOFOLLOW).  A symbolic link cannot be
\* opened this way (ELOOP); a successful open leaves errno as it was.
RelabelOpen(path, e) ==
  IF S_ISLNK(FileMode(path)) THEN [fd |-> -1, errno |-> "ELOOP"]
  ELSE IF Failed(e, "open") THEN [fd |-> -1, errno |-> "EACCES"]
  ELSE [fd |-> e.fd, errno |-> e.errno0]

\* Line 168: if (!fd && (errno != ELOOP)) goto quit.
OpenAborts(fd, errno) == fd = 0 /\ errno # "ELOOP"

\* Lines 171, 189 and 204: if (fd).
UseFd(fd) == fd # 0

\* Lines 191 and 195: if (!rc) goto quit, after fgetfilecon and lgetfilecon.
GetAborts(rc) == rc = 0

\* Lines 210-218: the common exit.
RelabelQuit(path, rc, fd, ops, scon, tcon, scontext, tcontext, applied) ==
  [rc |-> rc, crashed |-> FALSE,
   ops |-> ops \o <<"close">>
           \o (IF scontext # NULL THEN <<"context_free", "context_free">> ELSE <<>>)
           \o <<"freecon", "freecon">>,
   fd |-> fd, closed |-> <<fd>>, applied |-> applied,
   target |-> IF applied = NULL THEN NULL ELSE path,
   held |-> Acquired(scon, tcon, scontext, tcontext) \ ReleasedAtQuit(scontext)]

\* The process dies inside the call: nothing is released.
RelabelCrash(fd, ops, scon, tcon, scontext, tcontext) ==
  [rc |-> -1, crashed |-> TRUE, ops |-> ops, fd |-> fd, closed |-> <<>>,
   applied |-> NULL, target |-> NULL,
   held |-> Acquired(scon, tcon, scontext, tcontext)
            \cup (IF fd >= 0 THEN {"fd"} ELSE {})]

\* Lines 167-218, recompute.
RelabelRecompute(path, e, fcon) ==
  LET o == RelabelOpen(path, e)
      fd == o.fd
      byFd == UseFd(fd)
      statOp == IF byFd THEN "fstat" ELSE "lstat"
      statRc == IF byFd /\ fd < 0 THEN -1
                ELSE IF Failed(e, "stat") THEN -1 ELSE 0
      mode == FileMode(path)
      matchRc == IF Failed(e, "matchpathcon") THEN -1 ELSE 0
      scon == IF matchRc < 0 THEN NULL ELSE matchpathcon(path, mode)
      scontext == IF Failed(e, "context_new_s") THEN NULL ELSE context_new(scon)
      getOp == IF byFd THEN "fgetfilecon" ELSE "lgetfilecon"
      tcon == IF Failed(e, "getfilecon") THEN NULL ELSE fcon[path]
      getRc == IF tcon = NULL THEN -1 ELSE ConSize(tcon)
      tcontext == IF tcon = NULL \/ Failed(e, "context_new_t") THEN NULL
                  ELSE context_new(tcon)
      setOp == IF byFd THEN "fsetfilecon" ELSE "lsetfilecon"
      setRc == IF Failed(e, "setfilecon") THEN -1 ELSE 0
      ops1 == <<"open">>
      ops2 == ops1 \o <<statOp>>
      ops3 == ops2 \o <<"matchpathcon">>
      ops4 == ops3 \o <<"context_new_s">>
      ops5 == ops4 \o <<getOp>>
      ops6 == ops5 \o <<"context_new_t">>
      ops7 == ops6 \o <<"context_type_set", "context_str", setOp>>
  IN IF OpenAborts(fd, o.errno)
     THEN RelabelQuit(path, -1, fd, ops1, NULL, NULL, NULL, NULL, NULL)
     ELSE IF statRc < 0
     THEN RelabelQuit(path, statRc, fd, ops2, NULL, NULL, NULL, NULL, NULL)
     ELSE IF matchRc < 0
     THEN RelabelQuit(path, matchRc, fd, ops3, NULL, NULL, NULL, NULL, NULL)
     ELSE IF scontext = NULL
     THEN RelabelQuit(path, -1, fd, ops4, scon, NULL, NULL, NULL, NULL)
     ELSE IF GetAborts(getRc)
     THEN RelabelQuit(path, getRc, fd, ops5, scon, tcon, scontext, NULL, NULL)
     ELSE IF tcon = NULL /\ e.ub = "crash"
     THEN RelabelCrash(fd, ops6, scon, tcon, scontext, NULL)
     ELSE IF tcontext = NULL
     THEN RelabelQuit(path, getRc, fd, ops6, scon, tcon, scontext, NULL, NULL)
     ELSE RelabelQuit(path, setRc, fd, ops7, scon, tcon, scontext, tcontext,
                      IF setRc = 0
                      THEN context_str(SubstituteType(tcontext, scontext))
                      ELSE NULL)

\* A restorecon_private that does not test preserve.
restorecon_private_Recompute(path, preserve, e, fcon, fscreate) ==
  RelabelRecompute(path, e, fcon)

restorecon_private(path, preserve, e, fcon, fscreate) ==
  IF preserve THEN RelabelPreserve(path, e, fscreate)
  ELSE RelabelRecompute(path, e, fcon)

------------------------------------------------------------------------------
\* The walk of fts(3) over the tree, FTS_PHYSICAL: a directory is returned
\* before its entries (FTS_D) and again after them (FTS_DP); a symbolic link
\* is returned as itself and not followed.
RECURSIVE FtsOrder(_), FtsOrderAll(_, _)
FtsOrder(path) ==
  IF S_ISDIR(FileMode(path))
  THEN <<[path |-> path, info |-> "FTS_D"]>>
       \o FtsOrderAll(Children(path), 1)
       \o <<[path |-> path, info |-> "FTS_DP"]>>
  ELSE <<[path |-> path,
          info |-> IF S_ISLNK(FileMode(path)) THEN "FTS_SL" ELSE "FTS_F"]>>
FtsOrderAll(paths, i) ==
  IF i > Len(paths) THEN <<>> ELSE FtsOrder(paths[i]) \o FtsOrderAll(paths, i + 1)

\* a & b on C ints (two's complement).
RECURSIVE BitAnd(_, _)
BitAnd(a, b) ==
  IF a = 0 \/ b = 0 THEN 0
  ELSE IF a = -1 THEN b
  ELSE IF b = -1 THEN a
  ELSE (a % 2) * (b % 2) + 2 * BitAnd(a \div 2, b \div 2)

\* The conversion of an int to bool: any value but 0 is true.
ToBool(v) == IF v # 0 THEN 1 ELSE 0

\* Line 240: return restorecon_private (path, preserve), from a bool function.
RestoreconReturn(rc) == ToBool(rc)

\* Line 259: ok &= restorecon_private (fts->fts_path, preserve), ok a bool.
AndAssign(ok, rc) == ToBool(BitAnd(ok, rc))

------------------------------------------------------------------------------
VARIABLES
  pc,           \* "idle": outside a call; "read", "relabel", "close": where a
                \* recursive restorecon stands; "crashed": the process died
  filecon,      \* the label on disk of every object
  fscreatecon,  \* the process's creation label, NULL when none is set
  fts,          \* the walk handle of the recursive restorecon
  ok,           \* restorecon's ok
  trace,        \* the walk calls of the recursive restorecon, in order
  visits,       \* the entries it handed to restorecon_private, with the result
  comp,         \* the result of the last computecon
  dflt,         \* the result of the last defaultcon
  rel,          \* the result of the last restorecon_private
  last          \* the call: its arguments, its environment, the state it
                \* started from and its return value; op is "none" before it

vars ==
  <<pc, filecon, fscreatecon, fts, ok, trace, visits, comp, dflt, rel, last>>

NoFts ==
  [handle |-> "none", rest |-> <<>>, path |-> NULL, info |-> "", readErr |-> FALSE,
   closeErr |-> FALSE]

NoDefaultcon ==
  [rc |-> -1, ops |-> <<>>, comp |-> NoComputecon, scon |-> NULL, tcon |-> NULL,
   tried |-> NULL, fscreate |-> NULL, held |-> {}]

NoRelabel ==
  [rc |-> -1, crashed |-> FALSE, ops |-> <<>>, fd |-> -1, closed |-> <<>>,
   applied |-> NULL, target |-> NULL, held |-> {}]

NoEnv == [fails |-> {}, fd |-> 3, errno0 |-> "EBADF", ub |-> "crash"]

ComputeconEnvs ==
  Envs({"strdup", "getcon", "getfilecon", "security_compute_create"},
       {3}, {"EBADF"}, {"crash"})

DefaultconEnvs ==
  Envs({"matchpathcon", "strdup", "getcon", "getfilecon", "security_compute_create",
        "context_new_s", "context_new_t", "setfscreatecon"},
       {3}, {"EBADF"}, {"crash"})

\* The environments of restorecon_private; the fields a run cannot read are
\* held at one value.
PreserveEnvs ==
  Envs({"getfscreatecon", "setfilecon"}, {3}, {"EBADF"}, {"crash", "null"})

RecomputeEnvs ==
  { e \in Envs({"open", "stat", "matchpathcon", "context_new_s", "getfilecon",
                "context_new_t", "setfilecon"},
               {0, 3}, {"ELOOP", "EBADF"}, {"crash", "null"}) :
      /\ e.fd = 3 => e.errno0 = "EBADF"
      /\ "getfilecon" \notin e.fails => e.ub = "crash" }

RelabelEnvs(preserve) == IF preserve THEN PreserveEnvs ELSE RecomputeEnvs

Call(op, path, mode, recurse, preserve, e, ret) ==
  [op |-> op, path |-> path, mode |-> mode, recurse |-> recurse,
   preserve |-> preserve, env |-> e, filecon |-> filecon,
   fscreatecon |-> fscreatecon, ret |-> ret]

\* The creation labels a process can hold when a call starts: none, or one an
\* earlier defaultcon installed.
InitFscreatecons ==
  {NULL} \cup { defaultcon(p, m, NoEnv, InitFilecon, NULL).fscreate :
                  p \in Objects, m \in Modes }

Init ==
  /\ pc = "idle"
  /\ filecon = InitFilecon
  /\ fscreatecon \in InitFscreatecons
  /\ fts = NoFts
  /\ ok = 1
  /\ trace = <<>>
  /\ visits = <<>>
  /\ comp = NoComputecon
  /\ dflt = NoDefaultcon
  /\ rel = NoRelabel
  /\ last = Call("none", NULL, 0, FALSE, FALSE, NoEnv, 0)

\* The labels on disk after a restorecon_private that returned r.
Relabelled(r) ==
  IF r.applied = NULL THEN filecon ELSE [filecon EXCEPT ![r.target] = r.applied]

\* A loop that hands restorecon's own argument to restorecon_private.
EntryPath_Root == last.path

\* Line 259: the path handed to restorecon_private is fts->fts_path, the path
\* of the entry fts_read returned last.
EntryPath == fts.path

\* Lines 259-260: whatever restorecon_private returned, the loop reads on.
LoopNext(rc) == "read"

\* A walk error that leaves ok as it is.
WalkError_Kept(v) == v

\* Lines 254 and 265: ok = false, on an error of fts_read or of fts_close.
WalkError(v) == 0

\* A call of computecon.
Computecon(path, mode, e) ==
  /\ pc = "idle"
  /\ last.op = "none"
  /\ comp' = computecon(path, mode, e, filecon)
  /\ last' = Call("computecon", path, mode, FALSE, FALSE, e, comp'.rc)
  /\ dflt' = NoDefaultcon
  /\ rel' = NoRelabel
  /\ fts' = NoFts
  /\ trace' = <<>>
  /\ visits' = <<>>
  /\ UNCHANGED <<pc, filecon, fscreatecon, ok>>

\* A call of defaultcon.
Defaultcon(path, mode, e) ==
  /\ pc = "idle"
  /\ last.op = "none"
  /\ dflt' = defaultcon(path, mode, e, filecon, fscreatecon)
  /\ comp' = dflt'.comp
  /\ fscreatecon' = dflt'.fscreate
  /\ last' = Call("defaultcon", path, mode, FALSE, FALSE, e, dflt'.rc)
  /\ rel' = NoRelabel
  /\ fts' = NoFts
  /\ trace' = <<>>
  /\ visits' = <<>>
  /\ UNCHANGED <<pc, filecon, ok>>

\* restorecon (path, false, preserve): lines 234-240.
RestoreconSingle(path, preserve, e) ==
  /\ pc = "idle"
  /\ last.op = "none"
  /\ rel' = restorecon_private(path, preserve, e, filecon, fscreatecon)
  /\ filecon' = Relabelled(rel')
  /\ pc' = IF rel'.crashed THEN "crashed" ELSE "idle"
  /\ last' = Call("restorecon", path, 0, FALSE, preserve, e, RestoreconReturn(rel'.rc))
  /\ comp' = NoComputecon
  /\ dflt' = NoDefaultcon
  /\ fts' = NoFts
  /\ trace' = <<>>
  /\ visits' = <<>>
  /\ UNCHANGED <<fscreatecon, ok>>

\* restorecon (path, true, preserve) up to the loop: lines 234-242.  fts_open
\* returns NULL when it fails.
RestoreconOpen(path, preserve, opened) ==
  /\ pc = "idle"
  /\ last.op = "none"
  /\ pc' = "read"
  /\ ok' = 1
  /\ fts' = [NoFts EXCEPT !.handle = IF opened THEN "open" ELSE "NULL",
                          !.rest = IF opened THEN FtsOrder(path) ELSE <<>>]
  /\ trace' = <<"fts_open">>
  /\ visits' = <<>>
  /\ last' = Call("restorecon", path, 0, TRUE, preserve, NoEnv, 0)
  /\ comp' = NoComputecon
  /\ dflt' = NoDefaultcon
  /\ rel' = NoRelabel
  /\ UNCHANGED <<filecon, fscreatecon>>

\* Lines 247-257: fts_read and the test of its result.  On the NULL handle
\* fts_read dereferences a null pointer; failed: the read fails (errno set).
FtsRead(failed, ub) ==
  /\ pc = "read"
  /\ trace' = Append(trace, "fts_read")
  /\ IF fts.handle = "NULL" /\ ub = "crash"
     THEN /\ pc' = "crashed"
          /\ UNCHANGED <<fts, ok>>
     ELSE IF fts.handle = "NULL" \/ failed
     THEN /\ pc' = "close"
          /\ ok' = WalkError(ok)
          /\ fts' = [fts EXCEPT !.readErr = TRUE]
     ELSE IF fts.rest = <<>>
     THEN /\ pc' = "close"
          /\ UNCHANGED <<fts, ok>>
     ELSE /\ pc' = "relabel"
          /\ fts' = [fts EXCEPT !.path = Head(fts.rest).path,
                                 !.info = Head(fts.rest).info,
                                 !.rest = Tail(fts.rest)]
          /\ UNCHANGED ok
  /\ UNCHANGED <<filecon, fscreatecon, visits, comp, dflt, rel, last>>

\* Line 259: the entry is relabelled and the result folded into ok.
RelabelEntry(e) ==
  /\ pc = "relabel"
  /\ rel' = restorecon_private(EntryPath, last.preserve, e, filecon, fscreatecon)
  /\ filecon' = Relabelled(rel')
  /\ trace' = Append(trace, "restorecon_private")
  /\ visits' = Append(visits, [path |-> EntryPath, rc |-> rel'.rc,
                               crashed |-> rel'.crashed])
  /\ last' = [last EXCEPT !.env = e, !.filecon = filecon]
  /\ IF rel'.crashed
     THEN pc' = "crashed" /\ UNCHANGED ok
     ELSE pc' = LoopNext(rel'.rc) /\ ok' = AndAssign(ok, rel'.rc)
  /\ UNCHANGED <<fscreatecon, fts, comp, dflt>>

\* Lines 262-268: fts_close, the test of its result and the return.
FtsClose(failed, ub) ==
  /\ pc = "close"
  /\ trace' = Append(trace, "fts_close")
  /\ IF fts.handle = "NULL" /\ ub = "crash"
     THEN /\ pc' = "crashed"
          /\ UNCHANGED <<fts, ok, last>>
     ELSE /\ pc' = "idle"
          /\ fts' = [fts EXCEPT !.handle = IF fts.handle = "NULL" THEN "NULL" ELSE "closed",
                                 !.closeErr = fts.handle = "NULL" \/ failed]
          /\ ok' = IF fts.handle = "NULL" \/ failed THEN WalkError(ok) ELSE ok
          /\ last' = [last EXCEPT !.ret = ok']
  /\ UNCHANGED <<filecon, fscreatecon, visits, comp, dflt, rel>>

Next ==
  \/ \E path \in Objects, mode \in Modes, e \in ComputeconEnvs : Computecon(path, mode, e)
  \/ \E path \in Objects, mode \in Modes, e \in DefaultconEnvs : Defaultcon(path, mode, e)
  \/ \E path \in Objects, preserve \in BOOLEAN :
       \E e \in RelabelEnvs(preserve) : RestoreconSingle(path, preserve, e)
  \/ \E path \in Objects, preserve \in BOOLEAN, opened \in BOOLEAN :
       RestoreconOpen(path, preserve, opened)
  \/ \E failed \in BOOLEAN, ub \in {"crash", "null"} : FtsRead(failed, ub)
  \/ \E e \in RelabelEnvs(last.preserve) : RelabelEntry(e)
  \/ \E failed \in BOOLEAN, ub \in {"crash", "null"} : FtsClose(failed, ub)

Spec == Init /\ [][Next]_vars

\* The program as it runs: restorecon is sequential code, so while the process
\* lives its next statement is executed and every call it makes returns.
LiveSpec == Spec /\ WF_vars(Next)

------------------------------------------------------------------------------
\* The vocabulary of the properties.

\* restorecon (path, false, preserve) has returned.
SingleReturned == pc = "idle" /\ last.op = "restorecon" /\ ~last.recurse

\* restorecon (path, true, preserve) has returned.
WalkReturned == pc = "idle" /\ last.op = "restorecon" /\ last.recurse

\* ... after a walk that opened and was read to its end without error.
CleanWalkReturned == WalkReturned /\ fts.handle = "closed" /\ ~fts.readErr

\* The objects reachable from an object by physical descent.
RECURSIVE Below(_)
Below(path) ==
  {path} \cup UNION { Below(Children(path)[i]) : i \in DOMAIN Children(path) }

\* How often restorecon_private was invoked on an object during the walk.
Count(path) == Cardinality({ i \in DOMAIN visits : visits[i].path = path })

SomeRelabelFailed == \E i \in DOMAIN visits : visits[i].rc # 0

\* C1: restorecon (path, false, p) returns true exactly when the one
\* restorecon_private it delegates to succeeded (returned 0), false exactly
\* when it failed, and changes no label but that of path.
C1_SingleReturnsRelabelOutcome ==
  SingleReturned =>
    /\ (last.ret = 1) <=> (rel.rc = 0)
    /\ fscreatecon = last.fscreatecon
    /\ \A p \in Paths : p # last.path => filecon[p] = last.filecon[p]

\* C2: the recursive restorecon returns false if and only if the relabel of
\* some visited entry failed, or the walk failed to open, to iterate or to
\* close.
C2_AggregateFalseIffSomeFailure ==
  WalkReturned =>
    ((last.ret = 0) <=>
       (SomeRelabelFailed \/ fts.handle = "NULL" \/ fts.readErr \/ fts.closeErr))

\* C3 as stated: after a walk that opened and iterated without error, every
\* object reachable from the root was relabelled exactly once.
C3_EveryEntryExactlyOnce ==
  CleanWalkReturned => \A p \in Below(last.path) : Count(p) = 1

\* C3 as amended: restorecon_private is invoked exactly once, in order, on
\* each entry fts_read returns, and the walk returns a directory twice (before
\* and after its entries); so when the call returns after a walk that opened
\* and iterated without error, every reachable object that is not a directory
\* was relabelled exactly once, every directory twice, and nothing else.
C3_OncePerWalkReport ==
  /\ (last.op = "restorecon" /\ last.recurse /\ fts.handle # "NULL") =>
       /\ Len(visits) + (IF pc = "relabel" THEN 1 ELSE 0) + Len(fts.rest)
            = Len(FtsOrder(last.path))
       /\ \A i \in DOMAIN visits : visits[i].path = FtsOrder(last.path)[i].path
  /\ CleanWalkReturned =>
       /\ \A p \in Below(last.path) :
            Count(p) = IF S_ISDIR(FileMode(p)) THEN 2 ELSE 1
       /\ \A i \in DOMAIN visits : visits[i].path \in Below(last.path)

C3_Witness ==
  /\ CleanWalkReturned
  /\ last.path = <<"/", "d">>
  /\ Count(<<"/", "d">>) = 2
  /\ Count(<<"/", "d", "a">>) = 1
  /\ Count(<<"/", "d", "l">>) = 1

\* C4: a relabel that fails on one entry does not stop the walk: the entry is
\* followed by the read and the relabel of the next one unless the walk
\* itself ended (no entry left, or fts_read failed), and the call does not
\* return before fts_close.
C4_FailureDoesNotStopWalk ==
  (last.op = "restorecon" /\ last.recurse) =>
    /\ \A k \in DOMAIN visits :
         (visits[k].rc # 0 \/ visits[k].crashed) =>
           \/ k < Len(visits)
           \/ pc \in {"read", "relabel"}
           \/ pc \in {"close", "idle"} /\ (fts.rest = <<>> \/ fts.readErr)
    /\ pc = "idle" => trace[Len(trace)] = "fts_close"

\* restorecon_private has run, alone or on an entry of the walk; rel is its
\* result, last.env its environment and last.filecon the labels before it.
RelabelDone == last.op = "restorecon" /\ rel.ops # <<>>

\* The object it was called on.
RelabelPath == IF last.recurse THEN visits[Len(visits)].path ELSE last.path

\* How often a call occurs in a sequence of calls.
Occurs(ops, op) == Cardinality({ i \in DOMAIN ops : ops[i] = op })

\* The directory that holds an object.
Parent(path) ==
  CHOOSE q \in Paths : \E i \in DOMAIN Children(q) : Children(q)[i] = path

\* C5: restorecon_private (path, false) on an object that can be opened, with
\* no step failing, sets on it its old label with only the type replaced by
\* the type of the pattern label for its path and mode, and returns 0.
C5_RecomputeMergesType ==
  (RelabelDone /\ ~last.preserve /\ last.env.fails = {}
     /\ ~S_ISLNK(FileMode(RelabelPath))) =>
    LET old == last.filecon[RelabelPath]
        pat == matchpathcon(RelabelPath, FileMode(RelabelPath))
        new == filecon[RelabelPath]
    IN /\ rel.rc = 0
       /\ rel.applied = new
       /\ new[1] = old[1] /\ new[2] = old[2] /\ new[3] = pat[3]
       /\ Len(new) = Len(old)
       /\ Len(old) >= 4 => new[4] = old[4]

\* C6 as stated: a successful defaultcon installs a creation label with the
\* user, role and range of the pattern label and the type of the transition
\* label.
C6_PatternBaseTransitionType ==
  (last.op = "defaultcon" /\ dflt.rc = 0) =>
    /\ fscreatecon[1] = dflt.scon[1] /\ fscreatecon[2] = dflt.scon[2]
    /\ fscreatecon[4] = dflt.scon[4]
    /\ fscreatecon[3] = dflt.tcon[3]

\* C6 as amended: a successful defaultcon installs a creation label with the
\* user, role and range of the transition label (computecon's) and the type
\* of the pattern label (matchpathcon's).
C6_TransitionBasePatternType ==
  (last.op = "defaultcon" /\ dflt.rc = 0) =>
    /\ dflt.tcon = security_compute_create(ProcessCon,
                     last.filecon[Parent(last.path)],
                     mode_to_security_class(last.mode).class)
    /\ dflt.scon = matchpathcon(last.path, last.mode)
    /\ fscreatecon =
         <<dflt.tcon[1], dflt.tcon[2], dflt.scon[3], dflt.tcon[4]>>

C6_Witness ==
  /\ last.op = "defaultcon"
  /\ dflt.rc = 0
  /\ dflt.scon[1] # dflt.tcon[1]
  /\ dflt.scon[3] # dflt.tcon[3]
  /\ dflt.scon[4] # dflt.tcon[4]
  /\ fscreatecon # last.fscreatecon

\* C7: defaultcon returns -1 whenever a lookup, the transition computation, a
\* parse or the install fails, and then leaves the creation label as it was;
\* setfscreatecon is called at most once, after every other step succeeded,
\* and only releases follow it.
C7_DefaultconFailureLeavesState ==
  last.op = "defaultcon" =>
    /\ (last.env.fails # {} \/ FileType(last.mode) = 0) => dflt.rc = -1
    /\ dflt.rc # 0 => fscreatecon = last.fscreatecon
    /\ Occurs(dflt.ops, "setfscreatecon") <= 1
    /\ \A i \in DOMAIN dflt.ops :
         dflt.ops[i] = "setfscreatecon" =>
           /\ last.env.fails \subseteq {"setfscreatecon"}
           /\ comp.rc = 0
           /\ SubSeq(dflt.ops, 1, i - 1) =
                <<"matchpathcon", "computecon", "context_new_s", "context_new_t",
                  "context_type_set", "context_str">>
           /\ \A j \in (i + 1)..Len(dflt.ops) :
                dflt.ops[j] \in {"context_free", "freecon"}

C7_Witness ==
  /\ last.op = "defaultcon"
  /\ "context_new_t" \in last.env.fails
  /\ dflt.rc = -1
  /\ Occurs(dflt.ops, "setfscreatecon") = 0
  /\ fscreatecon = last.fscreatecon
  /\ fscreatecon # NULL

\* C8: restorecon_private (path, true), when getfscreatecon and the set both
\* succeed, leaves on the object the creation label as it is, and leaves the
\* creation label unchanged.
C8_PreserveCopiesCreationLabel ==
  (RelabelDone /\ last.preserve /\ ~rel.crashed /\ last.env.fails = {}
     /\ last.fscreatecon # NULL) =>
    /\ filecon[RelabelPath] = last.fscreatecon
    /\ fscreatecon = last.fscreatecon

C8_Witness ==
  /\ SingleReturned
  /\ last.preserve
  /\ last.path = <<"/", "d", "l">>
  /\ last.env.fails = {}
  /\ last.fscreatecon # NULL
  /\ last.filecon[last.path] # last.fscreatecon
  /\ filecon[last.path] = fscreatecon

\* C9: restorecon_private (path, true) calls getfscreatecon once, then
\* lsetfilecon at most once, and nothing else but the release of the label:
\* no pattern lookup, no transition computation, no open and no read of the
\* object's label.
C9_PreserveOnlyReadsAndApplies ==
  (RelabelDone /\ last.preserve) =>
    /\ rel.ops[1] = "getfscreatecon"
    /\ Occurs(rel.ops, "getfscreatecon") = 1
    /\ Occurs(rel.ops, "lsetfilecon") <= 1
    /\ \A i \in DOMAIN rel.ops :
         /\ rel.ops[i] \in {"getfscreatecon", "lsetfilecon", "freecon"}
         /\ rel.ops[i] = "lsetfilecon" => i = 2
    /\ rel.closed = <<>>

C9_Witness ==
  /\ RelabelDone
  /\ last.preserve
  /\ rel.rc = 0
  /\ rel.ops = <<"getfscreatecon", "lsetfilecon", "freecon">>

\* computecon has run, called directly or by defaultcon; comp is its result.
ComputeconRan == last.op \in {"computecon", "defaultcon"} /\ comp.ops # <<>>

\* C10: computecon returns -1 and stores no label whenever getcon, getfilecon
\* on the parent directory, the class of the mode or security_compute_create
\* fails; security_compute_create is called only after the earlier steps
\* succeeded, with the label of the parent directory of path as the target.
C10_ComputeconFailsWithoutResult ==
  ComputeconRan =>
    /\ (last.env.fails \cap {"getcon", "getfilecon", "security_compute_create"} # {}
          \/ FileType(last.mode) = 0)
         => (comp.rc = -1 /\ comp.con = NULL)
    /\ comp.asked =>
         /\ last.env.fails \cap {"strdup", "getcon", "getfilecon"} = {}
         /\ FileType(last.mode) # 0
         /\ comp.tpath = Parent(last.path)
         /\ comp.tcon = last.filecon[Parent(last.path)]
         /\ comp.scon = ProcessCon
    /\ comp.rc = 0 => comp.asked

C10_Witness ==
  /\ last.op = "computecon"
  /\ last.path = <<"/", "d", "a">>
  /\ "security_compute_create" \in last.env.fails
  /\ comp.asked
  /\ comp.tcon = last.filecon[<<"/", "d">>]
  /\ comp.rc = -1
  /\ comp.con = NULL

\* The file-type predicates in the order of the claim, with the class name of
\* each.
TypeOrder == <<S_IFREG, S_IFDIR, S_IFCHR, S_IFBLK, S_IFIFO, S_IFLNK, S_IFSOCK>>
ClassOrder ==
  <<"file", "dir", "chr_file", "blk_file", "fifo_file", "lnk_file", "sock_file">>

\* computecon has called mode_to_security_class on its mode.
ClassResolved ==
  /\ ComputeconRan
  /\ \E i \in DOMAIN comp.ops : comp.ops[i] = "mode_to_security_class"

\* C11: mode_to_security_class returns the class of the first file-type
\* predicate, in the order regular, directory, character device, block
\* device, FIFO, symbolic link, socket, that the mode satisfies; for a mode
\* that satisfies none it returns 0 (no class) with errno set to EINVAL, and
\* it changes neither a label on disk nor the creation label.
C11_ClassOfFirstMatch ==
  ClassResolved =>
    LET hits == { i \in DOMAIN TypeOrder : FileType(last.mode) = TypeOrder[i] }
    IN /\ hits = {} => (comp.tclass = 0 /\ comp.einval /\ ~comp.asked)
       /\ hits # {} =>
            LET first == CHOOSE i \in hits : \A j \in hits : i <= j
            IN /\ comp.tclass = string_to_security_class(ClassOrder[first])
               /\ comp.tclass # 0
               /\ ~comp.einval
       /\ filecon = last.filecon
       /\ last.op = "computecon" => fscreatecon = last.fscreatecon

C11_Witness ==
  /\ last.op = "computecon"
  /\ ClassResolved
  /\ S_ISSOCK(last.mode)
  /\ comp.tclass = 12
  /\ comp.rc = 0

\* The recompute branch of restorecon_private has run.
RecomputeDone == RelabelDone /\ ~last.preserve

\* Whether a call was made, by name.
Called(ops, op) == \E i \in DOMAIN ops : ops[i] = op

\* C12: restorecon_private (path, false) on a symbolic link: the open fails
\* with ELOOP, every later step goes by the path without following it (lstat,
\* lgetfilecon, lsetfilecon), and when these succeed the link is relabelled
\* and the call returns 0; when the open of another object fails, no label
\* is applied and the call fails.
C12_SymlinkFallsBackToPath ==
  RecomputeDone =>
    /\ S_ISLNK(FileMode(RelabelPath)) =>
         /\ rel.fd = -1
         /\ ~Called(rel.ops, "fstat")
         /\ ~Called(rel.ops, "fgetfilecon")
         /\ ~Called(rel.ops, "fsetfilecon")
         /\ last.env.fails = {} =>
              /\ Called(rel.ops, "lstat")
              /\ Called(rel.ops, "lgetfilecon")
              /\ Called(rel.ops, "lsetfilecon")
              /\ rel.rc = 0
              /\ rel.applied # NULL
              /\ filecon[RelabelPath] = rel.applied
    /\ (~S_ISLNK(FileMode(RelabelPath)) /\ "open" \in last.env.fails) =>
         /\ rel.rc = -1
         /\ rel.applied = NULL
         /\ filecon = last.filecon

\* C13: when fts_open fails (returns NULL), the recursive restorecon returns
\* false and calls neither fts_read, restorecon_private nor fts_close.
C13_FailedOpenTouchesNoWalk ==
  (last.op = "restorecon" /\ last.recurse /\ fts.handle = "NULL") =>
    /\ ~Called(trace, "fts_read")
    /\ ~Called(trace, "restorecon_private")
    /\ ~Called(trace, "fts_close")
    /\ pc # "crashed"
    /\ pc = "idle" => last.ret = 0

\* The steps of the recompute branch that failed in the last call; the open
\* of a symbolic link, which fails with ELOOP whatever happens, is not one.
FailedSteps ==
  (last.env.fails
     \cap {"open", "stat", "matchpathcon", "context_new_s", "getfilecon",
           "context_new_t"})
  \ (IF S_ISLNK(FileMode(RelabelPath)) THEN {"open"} ELSE {})

\* C14: in restorecon_private (path, false) a failed step (the open, the
\* stat, the pattern lookup, either parse, the read of the current label)
\* ends the call there: the call returns -1, no label is applied, and no
\* later step runs; a failed read of the current label is not followed by the
\* parse, and a read that succeeded is.
C14_FailedStepAborts ==
  RecomputeDone =>
    /\ FailedSteps # {} =>
         /\ ~rel.crashed
         /\ rel.rc = -1
         /\ rel.applied = NULL
         /\ ~Called(rel.ops, "fsetfilecon")
         /\ ~Called(rel.ops, "lsetfilecon")
         /\ filecon = last.filecon
    /\ "open" \in FailedSteps =>
         (~Called(rel.ops, "fstat") /\ ~Called(rel.ops, "lstat"))
    /\ "getfilecon" \in FailedSteps => ~Called(rel.ops, "context_new_t")
    /\ ((Called(rel.ops, "fgetfilecon") \/ Called(rel.ops, "lgetfilecon"))
          /\ "getfilecon" \notin FailedSteps) => Called(rel.ops, "context_new_t")

\* C15: in restorecon_private (path, false), whenever open returned a
\* descriptor (0 included), the mode is read by fstat, the label by
\* fgetfilecon and the merged label set by fsetfilecon on it, never by path;
\* the calls by path are made only when open returned no descriptor.
C15_DescriptorAuthoritative ==
  RecomputeDone =>
    /\ rel.fd >= 0 =>
         /\ ~Called(rel.ops, "lstat")
         /\ ~Called(rel.ops, "lgetfilecon")
         /\ ~Called(rel.ops, "lsetfilecon")
         /\ last.env.fails = {} =>
              /\ Called(rel.ops, "fstat")
              /\ Called(rel.ops, "fgetfilecon")
              /\ Called(rel.ops, "fsetfilecon")
    /\ rel.fd < 0 =>
         /\ ~Called(rel.ops, "fstat")
         /\ ~Called(rel.ops, "fgetfilecon")
         /\ ~Called(rel.ops, "fsetfilecon")

\* C20: restorecon_private (path, false) calls close at most once, and only
\* on the descriptor its own successful open returned, never on the -1 of a
\* failed open.
C20_CloseOnlyOpenedDescriptor ==
  RecomputeDone =>
    /\ Len(rel.closed) <= 1
    /\ \A i \in DOMAIN rel.closed : rel.closed[i] = rel.fd /\ rel.fd >= 0

\* C16: in a recursive restorecon whose walk opened, an error of fts_read or
\* of fts_close makes the call return false, whatever the relabels of the
\* entries returned.
C16_WalkErrorForcesFalse ==
  (last.op = "restorecon" /\ last.recurse /\ fts.handle # "NULL") =>
    /\ (pc = "close" /\ fts.readErr) => ok = 0
    /\ (pc = "idle" /\ (fts.readErr \/ fts.closeErr)) => last.ret = 0

C16_Witness ==
  /\ WalkReturned
  /\ fts.handle = "closed"
  /\ fts.closeErr
  /\ ~fts.readErr
  /\ Len(visits) = Len(FtsOrder(last.path))
  /\ \A i \in DOMAIN visits : visits[i].rc = 0
  /\ last.ret = 0

\* C17: in a recursive restorecon the walk is opened once, at the start;
\* restorecon_private only follows an fts_read; fts_close is called at most
\* once, after the last fts_read, and nothing follows it; and when the call is
\* over the walk has been closed.
C17_WalkOpenedReadClosedOnce ==
  (last.op = "restorecon" /\ last.recurse) =>
    /\ trace[1] = "fts_open"
    /\ Occurs(trace, "fts_open") = 1
    /\ fts.handle # "NULL"
    /\ Occurs(trace, "fts_close") <= 1
    /\ \A i \in DOMAIN trace :
         /\ trace[i] = "fts_close" => (i = Len(trace) /\ trace[i - 1] = "fts_read")
         /\ trace[i] = "restorecon_private" => trace[i - 1] = "fts_read"
    /\ pc \in {"idle", "crashed"} =>
         (trace[Len(trace)] = "fts_close" /\ fts.handle = "closed")

\* C18: when restorecon_private, computecon or defaultcon returns, on success
\* and after each failure, the descriptor it opened has been closed and every
\* label and parsed label it obtained has been released.
C18_NothingHeldAtReturn ==
  /\ (RelabelDone /\ ~rel.crashed) =>
       /\ rel.held = {}
       /\ rel.fd >= 0 => rel.closed = <<rel.fd>>
  /\ ComputeconRan => comp.held = {}
  /\ last.op = "defaultcon" => dflt.held = {}

C18_Witness ==
  /\ RecomputeDone
  /\ ~rel.crashed
  /\ last.env.fails = {"context_new_t"}
  /\ rel.fd = 3
  /\ rel.closed = <<3>>
  /\ Called(rel.ops, "fgetfilecon")
  /\ ~Called(rel.ops, "fsetfilecon")
  /\ rel.held = {}

\* C19: a recursive restorecon whose walk opened eventually closes the walk
\* and returns, whatever the entries' relabels return and whether or not
\* fts_read or fts_close fails.
C19_OpenedWalkReturns ==
  (last.op = "restorecon" /\ last.recurse /\ fts.handle = "open")
    ~> (pc = "idle" /\ fts.handle = "closed")

====
